---- MODULE Spec2Model ----
(***************************************************************************)
(* Sparse matrices of src/sparse_matrix.js: the insertion-ordered Map, the *)
(* Matrix class (setElement, getElement, add, subtract, multiply), the     *)
(* text parser Matrix.fromFile and the serializer of the main program.     *)
(*                                                                         *)
(* Strings are sequences of one-character strings, so that formatting and  *)
(* parsing are computed character by character as the JavaScript does.     *)
(* A JavaScript Number is a tagged record: an integer TLC can hold, NaN,   *)
(* or an integer too large for TLC that is kept as its decimal digits.     *)
(***************************************************************************)
EXTENDS Integers, Sequences, FiniteSets, TLC

\* ------------------------------------------------------------------ bounds
\* Largest numRows / numCols the driver constructs.
MaxDim == 2
\* Largest number of keys the driver puts into one matrix with setElement.
MaxEntries == 2
\* setElement is called with values in -MaxVal .. MaxVal.
MaxVal == 1
\* Number of add / subtract / multiply calls in one run.
MaxOps == 2
\* Integers of at most this many decimal digits are held as TLC integers.
MaxIntDigits == 8

\* --------------------------------------------------------------- numbers
Num(n) == [kind |-> "int", n |-> n]
NaN == [kind |-> "NaN"]
\* sign, significant digits (no trailing zero) and number of integer digits
Big(neg, sig, len) == [kind |-> "big", neg |-> neg, sig |-> sig, len |-> len]
Undefined == [kind |-> "undefined"]

DigitChars == <<"0", "1", "2", "3", "4", "5", "6", "7", "8", "9">>
IsDigit(c) == \E i \in 1..10 : DigitChars[i] = c
DigitVal(c) == (CHOOSE i \in 1..10 : DigitChars[i] = c) - 1
IsSpace(c) == c \in {" ", "\n", "\t", "\r"}

RECURSIVE NatToString(_)
NatToString(n) ==
    IF n < 10 THEN <<DigitChars[n + 1]>>
    ELSE NatToString(n \div 10) \o <<DigitChars[(n % 10) + 1]>>

RECURSIVE DigitsToNat(_)
DigitsToNat(ds) ==
    IF ds = <<>> THEN 0
    ELSE 10 * DigitsToNat(SubSeq(ds, 1, Len(ds) - 1)) + DigitVal(ds[Len(ds)])

RECURSIVE Zeros(_)
Zeros(n) == IF n <= 0 THEN <<>> ELSE <<"0">> \o Zeros(n - 1)

RECURSIVE StripLeadingZeros(_)
StripLeadingZeros(ds) ==
    IF Len(ds) > 1 /\ ds[1] = "0" THEN StripLeadingZeros(Tail(ds)) ELSE ds

RECURSIVE StripTrailingZeros(_)
StripTrailingZeros(ds) ==
    IF Len(ds) > 1 /\ ds[Len(ds)] = "0"
    THEN StripTrailingZeros(SubSeq(ds, 1, Len(ds) - 1)) ELSE ds

RECURSIVE DigitPrefix(_)
DigitPrefix(s) ==
    IF s # <<>> /\ IsDigit(s[1]) THEN <<s[1]>> \o DigitPrefix(Tail(s)) ELSE <<>>

\* The Number a run of decimal digits denotes. -0 is 0 here: the program
\* only compares it with 0 (-0 !== 0 is false) and prints it as "0".
Canonical(neg, ds) ==
    IF Len(ds) <= MaxIntDigits
    THEN Num(IF neg THEN 0 - DigitsToNat(ds) ELSE DigitsToNat(ds))
    ELSE Big(neg, StripTrailingZeros(ds), Len(ds))

MakeNumber(neg, digits) == Canonical(neg, StripLeadingZeros(digits))

\* Number::toString switches to exponent notation at 10^21.
ExponentFrom == 21

\* `${x}` for a Number x.
NumberToString(x) ==
    CASE x.kind = "NaN" -> <<"N", "a", "N">>
      [] x.kind = "int" ->
            IF x.n < 0 THEN <<"-">> \o NatToString(0 - x.n) ELSE NatToString(x.n)
      [] x.kind = "big" ->
            (IF x.neg THEN <<"-">> ELSE <<>>) \o
            (IF x.len <= ExponentFrom
             THEN x.sig \o Zeros(x.len - Len(x.sig))
             ELSE <<x.sig[1]>>
                  \o (IF Len(x.sig) > 1 THEN <<".">> \o Tail(x.sig) ELSE <<>>)
                  \o <<"e", "+">> \o NatToString(x.len - 1))

\* ---------------------------------------------------------------- strings
RECURSIVE TrimStart(_)
TrimStart(s) == IF s # <<>> /\ IsSpace(s[1]) THEN TrimStart(Tail(s)) ELSE s

RECURSIVE TrimEnd(_)
TrimEnd(s) ==
    IF s # <<>> /\ IsSpace(s[Len(s)]) THEN TrimEnd(SubSeq(s, 1, Len(s) - 1)) ELSE s

Trim(s) == TrimEnd(TrimStart(s))

\* s.indexOf(c): 0-based, -1 when absent.
IndexOf(s, c) ==
    IF \E i \in 1..Len(s) : s[i] = c
    THEN (CHOOSE i \in 1..Len(s) : s[i] = c /\ \A j \in 1..(i - 1) : s[j] # c) - 1
    ELSE -1

\* s.slice(from, to) for 0 <= from, 0 <= to.
Slice(s, from, to) == SubSeq(s, from + 1, to)

\* s.split(c) for a one-character separator.
RECURSIVE Split(_, _)
Split(s, c) ==
    IF IndexOf(s, c) = -1 THEN <<s>>
    ELSE <<SubSeq(s, 1, IndexOf(s, c))>>
         \o Split(SubSeq(s, IndexOf(s, c) + 2, Len(s)), c)

StartsWith(s, prefix) ==
    Len(s) >= Len(prefix) /\ SubSeq(s, 1, Len(prefix)) = prefix

\* The digits after an optional sign, as a Number; NaN when there is none.
SignedDigits(t, signed, neg) ==
    IF DigitPrefix(IF signed THEN Tail(t) ELSE t) = <<>> THEN NaN
    ELSE MakeNumber(neg, DigitPrefix(IF signed THEN Tail(t) ELSE t))

\* parseInt(s) of a string already stripped of leading white space.
ParseIntTrimmed(t) ==
    SignedDigits(t, t # <<>> /\ t[1] \in {"-", "+"}, t # <<>> /\ t[1] = "-")

\* parseInt(s) with no radix, for s without a 0x prefix.
ParseInt(s) == ParseIntTrimmed(TrimStart(s))

\* The exponent part "e+N" of a numeric literal: N, or -1 when rest is none.
ExponentOf(rest) ==
    IF Len(rest) >= 3 /\ rest[1] \in {"e", "E"} /\ rest[2] = "+"
       /\ Len(DigitPrefix(SubSeq(rest, 3, Len(rest)))) + 2 = Len(rest)
    THEN DigitsToNat(SubSeq(rest, 3, Len(rest)))
    ELSE -1

\* digits [. frac] e+N as a Number.
Scientific(neg, ds, frac, exponent) ==
    IF exponent >= Len(frac)
    THEN MakeNumber(neg, ds \o frac \o Zeros(exponent - Len(frac)))
    ELSE NaN

\* The literal ds followed by rest, rest not empty.
WithFraction(neg, ds, rest, frac) ==
    IF rest[1] = "."
    THEN Scientific(neg, ds, frac,
                    ExponentOf(SubSeq(rest, Len(frac) + 2, Len(rest))))
    ELSE Scientific(neg, ds, <<>>, ExponentOf(rest))

UnsignedLiteral(neg, body, ds) ==
    IF ds = <<>> THEN NaN
    ELSE IF Len(ds) = Len(body) THEN MakeNumber(neg, ds)
    ELSE WithFraction(neg, ds, SubSeq(body, Len(ds) + 1, Len(body)),
                      IF body[Len(ds) + 1] = "."
                      THEN DigitPrefix(SubSeq(body, Len(ds) + 2, Len(body)))
                      ELSE <<>>)

SignedLiteral(neg, body) == UnsignedLiteral(neg, body, DigitPrefix(body))

NumericLiteral(t) ==
    IF t = <<>> THEN Num(0)
    ELSE SignedLiteral(t[1] = "-", IF t[1] \in {"-", "+"} THEN Tail(t) ELSE t)

\* Number(s) for the strings NumberToString yields: "NaN", a signed run
\* of digits, or a signed d[.ddd]e+N.
ToNumber(s) == NumericLiteral(Trim(s))

\* -------------------------------------------------------------------- Map
\* Map.store: the own properties of an object, in insertion order (no key
\* "row,col" is an array index, so no key is reordered).
MapHas(entries, key) == \E i \in 1..Len(entries) : entries[i].key = key

MapGet(entries, key) ==
    IF MapHas(entries, key)
    THEN entries[CHOOSE i \in 1..Len(entries) : entries[i].key = key].value
    ELSE Undefined

MapSet(entries, key, value) ==
    IF MapHas(entries, key)
    THEN [i \in 1..Len(entries) |->
            IF entries[i].key = key THEN [key |-> key, value |-> value]
            ELSE entries[i]]
    ELSE Append(entries, [key |-> key, value |-> value])

\* ----------------------------------------------------------------- Matrix
Slots == {"a", "b", "result"}
MapIds == 1..(Cardinality(Slots) + 1)
Null == [kind |-> "null"]

\* x !== y and x === y for Numbers.
StrictNotEqual(x, y) == x.kind = "NaN" \/ y.kind = "NaN" \/ x # y
StrictEqual(x, y) == ~StrictNotEqual(x, y)

\* x || 0
OrZero(x) ==
    IF x.kind \in {"undefined", "NaN"} \/ x = Num(0) THEN Num(0) ELSE x

\* +, - and * on Numbers the model holds as integers, and on NaN.
Plus(x, y) == IF x.kind = "NaN" \/ y.kind = "NaN" THEN NaN ELSE Num(x.n + y.n)
Minus(x, y) == IF x.kind = "NaN" \/ y.kind = "NaN" THEN NaN ELSE Num(x.n - y.n)
Times(x, y) == IF x.kind = "NaN" \/ y.kind = "NaN" THEN NaN ELSE Num(x.n * y.n)
Negate(x) == IF x.kind = "NaN" THEN NaN ELSE Num(0 - x.n)

\* `${row},${col}`
Key(row, col) == NumberToString(row) \o <<",">> \o NumberToString(col)

\* key.split(',').map(Number)
NumbersOf(parts) == <<ToNumber(parts[1]), ToNumber(parts[2])>>
KeyParts(key) == NumbersOf(Split(key, ","))

\* new Matrix(numRows, numCols), its Map being the object id.
Matrix(numRows, numCols, id) ==
    [numRows |-> numRows, numCols |-> numCols, elements |-> id]

\* The heap after the constructor of Map ran for object id.
NewMap(heap, id) == [heap EXCEPT ![id] = <<>>]

\* An object id that no live reference holds.
FreshId(live) == CHOOSE id \in MapIds \ live : \A j \in MapIds \ live : id <= j

\* setElement without its test for 0
setElement_NoGuard(heap, m, row, col, value) ==
    [heap EXCEPT ![m.elements] = MapSet(@, Key(row, col), value)]

\* m.setElement(row, col, value) on the heap.
setElement(heap, m, row, col, value) ==
    IF StrictNotEqual(value, Num(0))
    THEN [heap EXCEPT ![m.elements] = MapSet(@, Key(row, col), value)]
    ELSE heap

\* m.getElement(row, col)
getElement(heap, m, row, col) == OrZero(MapGet(heap[m.elements], Key(row, col)))

\* What a call yields: the value it returns or the error it throws, and
\* the heap it leaves.
Returned(value, heap) ==
    [threw |-> FALSE, error |-> "", value |-> value, heap |-> heap]
Thrown(error, heap) ==
    [threw |-> TRUE, error |-> error, value |-> Null, heap |-> heap]

\* && where the code has ||
DimensionsDiffer_And(this, other) ==
    /\ StrictNotEqual(this.numRows, other.numRows)
    /\ StrictNotEqual(this.numCols, other.numCols)

DimensionsDiffer(this, other) ==
    \/ StrictNotEqual(this.numRows, other.numRows)
    \/ StrictNotEqual(this.numCols, other.numCols)

\* The body of this.elements.forEach in add, [row, col] being the key's
\* two numbers.
addEntry(heap, value, rc, other, result) ==
    setElement(heap, result, rc[1], rc[2],
               Plus(value, getElement(heap, other, rc[1], rc[2])))

\* this.elements.forEach of add
RECURSIVE addFirstPass(_, _, _, _)
addFirstPass(heap, todo, other, result) ==
    IF todo = <<>> THEN heap
    ELSE addFirstPass(addEntry(heap, Head(todo).value, KeyParts(Head(todo).key),
                               other, result),
                      Tail(todo), other, result)

\* The body of other.elements.forEach in add
addMissing(heap, key, value, rc, result) ==
    IF ~MapHas(heap[result.elements], key)
    THEN setElement(heap, result, rc[1], rc[2], value)
    ELSE heap

\* other.elements.forEach of add
RECURSIVE addSecondPass(_, _, _)
addSecondPass(heap, todo, result) ==
    IF todo = <<>> THEN heap
    ELSE addSecondPass(addMissing(heap, Head(todo).key, Head(todo).value,
                                  KeyParts(Head(todo).key), result),
                       Tail(todo), result)

\* The two loops of add, one after the other, on the heap that holds the
\* empty result.
addSecondLoop(heap, other, result) ==
    addSecondPass(heap, heap[other.elements], result)

addLoops(heap, this, other, result) ==
    addSecondLoop(addFirstPass(heap, heap[this.elements], other, result),
                  other, result)

\* add that accumulates into this and returns it
add_InPlace(heap, this, other, id) ==
    IF DimensionsDiffer(this, other)
    THEN Thrown("Matrix dimensions do not match for addition", heap)
    ELSE Returned(this, addLoops(heap, this, other, this))

\* this.add(other), the result's Map being the fresh object id.
add(heap, this, other, id) ==
    IF DimensionsDiffer(this, other)
    THEN Thrown("Matrix dimensions do not match for addition", heap)
    ELSE Returned(Matrix(this.numRows, this.numCols, id),
                  addLoops(NewMap(heap, id), this, other,
                           Matrix(this.numRows, this.numCols, id)))

\* The body of this.elements.forEach in subtract
subtractEntry(heap, value, rc, other, result) ==
    setElement(heap, result, rc[1], rc[2],
               Minus(value, getElement(heap, other, rc[1], rc[2])))

\* this.elements.forEach of subtract
RECURSIVE subtractFirstPass(_, _, _, _)
subtractFirstPass(heap, todo, other, result) ==
    IF todo = <<>> THEN heap
    ELSE subtractFirstPass(subtractEntry(heap, Head(todo).value,
                                         KeyParts(Head(todo).key), other, result),
                           Tail(todo), other, result)

\* the second loop of subtract storing value where the code stores -value
subtractMissing_NotNegated(heap, key, value, rc, result) ==
    IF ~MapHas(heap[result.elements], key)
    THEN setElement(heap, result, rc[1], rc[2], value)
    ELSE heap

\* The body of other.elements.forEach in subtract
subtractMissing(heap, key, value, rc, result) ==
    IF ~MapHas(heap[result.elements], key)
    THEN setElement(heap, result, rc[1], rc[2], Negate(value))
    ELSE heap

\* other.elements.forEach of subtract
RECURSIVE subtractSecondPass(_, _, _)
subtractSecondPass(heap, todo, result) ==
    IF todo = <<>> THEN heap
    ELSE subtractSecondPass(subtractMissing(heap, Head(todo).key, Head(todo).value,
                                            KeyParts(Head(todo).key), result),
                            Tail(todo), result)

subtractSecondLoop(heap, other, result) ==
    subtractSecondPass(heap, heap[other.elements], result)

\* The two loops of subtract.
subtractLoops(heap, this, other, result) ==
    subtractSecondLoop(subtractFirstPass(heap, heap[this.elements], other, result),
                       other, result)

\* this.subtract(other)
subtract(heap, this, other, id) ==
    IF DimensionsDiffer(this, other)
    THEN Thrown("Matrix dimensions do not match for subtraction", heap)
    ELSE Returned(Matrix(this.numRows, this.numCols, id),
                  subtractLoops(NewMap(heap, id), this, other,
                                Matrix(this.numRows, this.numCols, id)))

\* multiply accumulating at (rowA, rowB) where the code has (rowA, colB)
multiplyEntry_RowB(heap, rowA, colA, valueA, rowB, colB, valueB, result) ==
    IF StrictEqual(colA, rowB)
    THEN setElement(heap, result, rowA, rowB,
                    Plus(getElement(heap, result, rowA, rowB),
                         Times(valueA, valueB)))
    ELSE heap

\* The body of other.elements.forEach in multiply, for the entry
\* (rowA, colA) -> valueA of this and the entry (rowB, colB) -> valueB.
multiplyEntry(heap, rowA, colA, valueA, rowB, colB, valueB, result) ==
    IF StrictEqual(colA, rowB)
    THEN setElement(heap, result, rowA, colB,
                    Plus(getElement(heap, result, rowA, colB),
                         Times(valueA, valueB)))
    ELSE heap

multiplyPair(heap, rcA, valueA, rcB, valueB, result) ==
    multiplyEntry(heap, rcA[1], rcA[2], valueA, rcB[1], rcB[2], valueB, result)

\* other.elements.forEach of multiply
RECURSIVE multiplyInner(_, _, _, _, _)
multiplyInner(heap, todo, rcA, valueA, result) ==
    IF todo = <<>> THEN heap
    ELSE multiplyInner(multiplyPair(heap, rcA, valueA, KeyParts(Head(todo).key),
                                    Head(todo).value, result),
                       Tail(todo), rcA, valueA, result)

\* this.elements.forEach of multiply
RECURSIVE multiplyOuter(_, _, _, _)
multiplyOuter(heap, todo, other, result) ==
    IF todo = <<>> THEN heap
    ELSE multiplyOuter(multiplyInner(heap, heap[other.elements],
                                     KeyParts(Head(todo).key), Head(todo).value,
                                     result),
                       Tail(todo), other, result)

multiplyLoops(heap, this, other, result) ==
    multiplyOuter(heap, heap[this.elements], other, result)

\* this.multiply(other)
multiply(heap, this, other, id) ==
    IF StrictNotEqual(this.numCols, other.numRows)
    THEN Thrown("Matrix dimensions do not match for multiplication", heap)
    ELSE Returned(Matrix(this.numRows, other.numCols, id),
                  multiplyLoops(NewMap(heap, id), this, other,
                                Matrix(this.numRows, other.numCols, id)))

\* ------------------------------------------------------------- text format
RowsPrefix == <<"r", "o", "w", "s", "=">>
ColsPrefix == <<"c", "o", "l", "s", "=">>
NewLine == <<"\n">>
InvalidFormat == "Invalid file format"

\* lines.join('\n')
RECURSIVE Join(_)
Join(lines) ==
    IF lines = <<>> THEN <<>>
    ELSE IF Len(lines) = 1 THEN lines[1]
    ELSE lines[1] \o NewLine \o Join(Tail(lines))

\* Matrix.extractNumber(line, prefix); lines[i] of a missing line is
\* undefined, and startsWith on it throws a TypeError.
extractNumber(line, prefix) ==
    IF line = Undefined
    THEN [threw |-> TRUE, error |-> "TypeError", value |-> NaN]
    ELSE IF ~StartsWith(line, prefix)
    THEN [threw |-> TRUE, error |-> InvalidFormat, value |-> NaN]
    ELSE [threw |-> FALSE, error |-> "",
          value |-> ParseInt(Trim(SubSeq(line, Len(prefix) + 1, Len(line))))]

\* The three fields of extractValues, parsed.
parsedValues(values) ==
    IF Len(values) # 3
    THEN [threw |-> TRUE, error |-> InvalidFormat, value |-> <<>>]
    ELSE [threw |-> FALSE, error |-> "",
          value |-> <<ParseInt(Trim(values[1])), ParseInt(Trim(values[2])),
                      ParseInt(Trim(values[3]))>>]

valuesBetween(line, startIndex, endIndex) ==
    IF startIndex = -1 \/ endIndex = -1
    THEN [threw |-> TRUE, error |-> InvalidFormat, value |-> <<>>]
    ELSE parsedValues(Split(Slice(line, startIndex + 1, endIndex), ","))

\* Matrix.extractValues(line)
extractValues(line) == valuesBetween(line, IndexOf(line, "("), IndexOf(line, ")"))

\* The loop of fromFile over the lines after the two header lines.
RECURSIVE fromFileLines(_, _, _)

\* One turn of that loop, for the trimmed line and what extractValues
\* yields for it.
fromFileLine(heap, line, ev, rest, matrix) ==
    IF line = <<>> THEN fromFileLines(heap, rest, matrix)
    ELSE IF ev.threw THEN Thrown(ev.error, heap)
    ELSE fromFileLines(
             setElement(heap, matrix, ev.value[1], ev.value[2], ev.value[3]),
             rest, matrix)

fromFileLines(heap, lines, matrix) ==
    IF lines = <<>> THEN Returned(matrix, heap)
    ELSE fromFileLine(heap, Trim(Head(lines)), extractValues(Trim(Head(lines))),
                      Tail(lines), matrix)

\* fromFile once the two header lines are read.
fromFileBody(heap, lines, numRows, numCols, id) ==
    IF numRows.threw THEN Thrown(numRows.error, heap)
    ELSE IF numCols.threw THEN Thrown(numCols.error, heap)
    ELSE fromFileLines(NewMap(heap, id), SubSeq(lines, 3, Len(lines)),
                       Matrix(numRows.value, numCols.value, id))

fromFileOf(heap, lines, id) ==
    fromFileBody(heap, lines, extractNumber(lines[1], RowsPrefix),
                 extractNumber(IF Len(lines) >= 2 THEN lines[2] ELSE Undefined,
                               ColsPrefix),
                 id)

\* A throw leaves no reference to the Map that was being filled.
Discard(out, heap) == IF out.threw THEN Thrown(out.error, heap) ELSE out

\* Matrix.fromFile on a file of the given content, the new matrix's Map
\* being the fresh object id.
fromFile(heap, content, id) ==
    Discard(fromFileOf(heap, Split(Trim(content), "\n"), id), heap)

\* One line `(${row}, ${col}, ${value})` of the result file, row and col
\* being the two halves of the key as they stand.
lineOf(parts, value) ==
    <<"(">> \o parts[1] \o <<",", " ">> \o parts[2] \o <<",", " ">>
    \o NumberToString(value) \o <<")">>

resultLine(entry) == lineOf(Split(entry.key, ","), entry.value)

\* The lines the main program writes for a matrix.
resultLines(numRows, numCols, entries) ==
    <<RowsPrefix \o NumberToString(numRows), ColsPrefix \o NumberToString(numCols)>>
    \o [i \in 1..Len(entries) |-> resultLine(entries[i])]

\* The content of the result file.
serialize(heap, m) == Join(resultLines(m.numRows, m.numCols, heap[m.elements]))

\* ------------------------------------------------------------ input files
\* `(row, col, value)` from three tokens.
InputLine(row, col, value) ==
    <<"(">> \o row \o <<",", " ">> \o col \o <<",", " ">> \o value \o <<")">>

InputFile(rows, cols, lines) ==
    Join(<<RowsPrefix \o rows, ColsPrefix \o cols>> \o lines)

\* The files the arithmetic runs load: well-formed ones (with zero values,
\* a repeated key, blank lines and padding), a key outside the dimensions,
\* and the two malformed files of the specification.
InputFiles ==
    { InputFile(<<"1">>, <<"2">>,
                <<InputLine(<<"0">>, <<"0">>, <<"1">>),
                  InputLine(<<"0">>, <<"1">>, <<"1">>)>>),
      InputFile(<<"2">>, <<"1">>,
                <<InputLine(<<"0">>, <<"0">>, <<"1">>),
                  InputLine(<<"1">>, <<"0">>, <<"-", "1">>)>>),
      InputFile(<<"2">>, <<"2">>,
                <<InputLine(<<"0">>, <<"0">>, <<"0">>),
                  InputLine(<<"1">>, <<"1">>, <<"-", "0">>),
                  InputLine(<<"0">>, <<"1">>, <<"1">>),
                  InputLine(<<"0">>, <<"1">>, <<"0">>)>>),
      InputFile(<<" ", "2">>, <<"2", " ">>,
                <<<<>>, <<" ", "(", " ", "1", " ", ",", "0", ",", " ", "-", "1",
                          " ", ")", " ">>, <<>>>>),
      InputFile(<<"1">>, <<"1">>, <<InputLine(<<"1">>, <<"1">>, <<"1">>)>>),
      <<"R", "O", "W", "S", "=", "2">> \o NewLine \o ColsPrefix \o <<"2">>,
      InputFile(<<"2">>, <<"2">>, << <<"(", "1", ",", "2", ")">> >>) }

\* The files the round trip loads: values and a row index at and beyond
\* 10^21, next to ordinary ones.
CodecFiles ==
    { InputFile(<<"2">>, <<"2">>,
                <<InputLine(<<"0">>, <<"0">>, <<"5">>),
                  InputLine(<<"1">>, <<"1">>, <<"-", "3">>)>>),
      InputFile(<<"1">>, <<"1">>,
                <<InputLine(<<"0">>, <<"0">>, <<"1">> \o Zeros(ExponentFrom - 1))>>),
      InputFile(<<"1">>, <<"1">>,
                <<InputLine(<<"0">>, <<"0">>, <<"1">> \o Zeros(ExponentFrom))>>),
      InputFile(<<"1">>, <<"2">>,
                <<InputLine(<<"0">>, <<"1">>, <<"-", "2", "5">> \o Zeros(ExponentFrom))>>) }

\* ------------------------------------------------------------------ state
VARIABLES
    pc,        \* "build": the operands are being filled; "ops": operations run;
               \* "written", "reloaded": the round trip of the result file
    matrices,  \* the variables a, b and result: a Matrix or Null
    maps,      \* the Map objects by id: the store of each
    call,      \* the last call: its method, its receiver and argument, and
               \* whether it threw
    nOps,      \* number of add / subtract / multiply calls made
    file       \* the content of the result file, Null before it is written

vars == <<pc, matrices, maps, call, nOps, file>>

Dims == 1..MaxDim
Values == (0 - MaxVal)..MaxVal

\* The row and column indices the driver passes for a matrix.
RowsOf(m) == IF m.numRows.kind = "int" THEN 0..(m.numRows.n - 1) ELSE {}
ColsOf(m) == IF m.numCols.kind = "int" THEN 0..(m.numCols.n - 1) ELSE {}

\* The objects the variables other than dest refer to.
LiveExcept(dest) ==
    {matrices[s].elements : s \in {t \in Slots \ {dest} : matrices[t] # Null}}

\* The record of a call of method op on matrices[this], with argument
\* matrices[other] for an operation.
Call(op, this, other, threw, error) ==
    [op |-> op, this |-> this, other |-> other, threw |-> threw, error |-> error]

NoCall == Call("none", "a", "b", FALSE, "")

\* const a = new Matrix(..), b = new Matrix(..)
Init ==
    /\ pc = "build"
    /\ \E ra \in Dims, ca \in Dims, rb \in Dims, cb \in Dims :
          matrices = [s \in Slots |->
                        CASE s = "a" -> Matrix(Num(ra), Num(ca), 1)
                          [] s = "b" -> Matrix(Num(rb), Num(cb), 2)
                          [] OTHER -> Null]
    /\ maps = [i \in MapIds |-> <<>>]
    /\ call = NoCall
    /\ nOps = 0
    /\ file = Null

\* matrices[s].setElement(row, col, value) while operand s is being built.
SetElement(s, row, col, value) ==
    /\ pc = "build"
    /\ row \in RowsOf(matrices[s]) /\ col \in ColsOf(matrices[s])
    /\ \/ MapHas(maps[matrices[s].elements], Key(Num(row), Num(col)))
       \/ Len(maps[matrices[s].elements]) < MaxEntries
    /\ maps' = setElement(maps, matrices[s], Num(row), Num(col), Num(value))
    /\ call' = [op |-> "setElement", this |-> s, row |-> row, col |-> col,
                value |-> value,
                had |-> MapHas(maps[matrices[s].elements], Key(Num(row), Num(col)))]
    /\ UNCHANGED <<pc, matrices, nOps, file>>

\* The assignment of what fromFile yields; a throw leaves matrices[s].
Loaded(s, out) ==
    /\ maps' = out.heap
    /\ matrices' = IF out.threw THEN matrices
                   ELSE [matrices EXCEPT ![s] = out.value]
    /\ call' = Call("fromFile", s, s, out.threw, out.error)

\* matrices[s] = Matrix.fromFile(path), the file at path holding content;
\* the driver loads a file into an operand it has not filled yet.
LoadFile(s, content) ==
    /\ pc = "build"
    /\ maps[matrices[s].elements] = <<>>
    /\ Loaded(s, fromFile(maps, content, FreshId(LiveExcept(s))))
    /\ UNCHANGED <<pc, nOps, file>>

\* result = matrices[x].op(matrices[y]); a throw leaves result as it was.
Operation(op, x, y, out) ==
    /\ nOps < MaxOps
    /\ pc \in {"build", "ops"}
    /\ matrices[x] # Null /\ matrices[y] # Null
    /\ maps' = out.heap
    /\ matrices' = IF out.threw THEN matrices
                   ELSE [matrices EXCEPT !["result"] = out.value]
    /\ call' = Call(op, x, y, out.threw, out.error)
    /\ pc' = "ops"
    /\ nOps' = nOps + 1
    /\ UNCHANGED file

\* The object id of the Matrix an operation on x and y constructs.
ResultId(x, y) ==
    FreshId(LiveExcept("result") \cup {matrices[x].elements, matrices[y].elements})

Add(x, y) ==
    /\ matrices[x] # Null
    /\ Operation("add", x, y, add(maps, matrices[x], matrices[y], ResultId(x, y)))

Subtract(x, y) ==
    /\ matrices[x] # Null
    /\ Operation("subtract", x, y,
                 subtract(maps, matrices[x], matrices[y], ResultId(x, y)))

Multiply(x, y) ==
    /\ matrices[x] # Null
    /\ Operation("multiply", x, y,
                 multiply(maps, matrices[x], matrices[y], ResultId(x, y)))

\* The left operand is a or an earlier result, the right operand is b.
Next ==
    \/ \E s \in {"a", "b"}, row \in 0..(MaxDim - 1), col \in 0..(MaxDim - 1),
          value \in Values : SetElement(s, row, col, value)
    \/ \E s \in {"a", "b"}, content \in InputFiles : LoadFile(s, content)
    \/ \E x \in {"a", "result"} : Add(x, "b")
    \/ \E x \in {"a", "result"} : Subtract(x, "b")
    \/ \E x \in {"a", "result"} : Multiply(x, "b")

Spec == Init /\ [][Next]_vars

\* ------------------------------------------------------- the result file
\* The main program writes matrices[s] to the result file.
Serialize(s) ==
    /\ pc = "build"
    /\ file' = serialize(maps, matrices[s])
    /\ call' = Call("serialize", s, s, FALSE, "")
    /\ pc' = "written"
    /\ UNCHANGED <<matrices, maps, nOps>>

\* b = Matrix.fromFile(the result file)
Reload ==
    /\ pc = "written"
    /\ Loaded("b", fromFile(maps, file, FreshId(LiveExcept("b"))))
    /\ pc' = "reloaded"
    /\ UNCHANGED <<nOps, file>>

\* a is loaded or filled, written to the result file, and read back into b.
NextCodec ==
    \/ \E content \in CodecFiles : LoadFile("a", content)
    \/ \E row \in 0..(MaxDim - 1), col \in 0..(MaxDim - 1), value \in Values :
          SetElement("a", row, col, value)
    \/ Serialize("a")
    \/ Reload

SpecCodec == Init /\ [][NextCodec]_vars

\* ----------------------------------------------------------------- claims
Operations == {"add", "subtract", "multiply"}

\* The step is a call of op that returned.
ReturnedStep(op) == nOps' = nOps + 1 /\ call'.op = op /\ ~call'.threw

\* The entries of matrix m, and the value it holds for a key (0 if none).
EntriesOf(heap, m) == heap[m.elements]
KeysOf(entries) == {entries[i].key : i \in 1..Len(entries)}
PartsInRange(m, rc) ==
    /\ rc[1].kind = "int" /\ rc[2].kind = "int"
    /\ rc[1].n \in RowsOf(m) /\ rc[2].n \in ColsOf(m)
InRange(m, key) == PartsInRange(m, KeyParts(key))
KeysInRange(heap, m) == \A key \in KeysOf(EntriesOf(heap, m)) : InRange(m, key)

\* sum over k < n of A(r, k) * B(k, c)
RECURSIVE DotProduct(_, _, _, _, _, _)
DotProduct(heap, A, B, r, c, n) ==
    IF n = 0 THEN 0
    ELSE DotProduct(heap, A, B, r, c, n - 1)
         + getElement(heap, A, Num(r), Num(n - 1)).n
           * getElement(heap, B, Num(n - 1), Num(c)).n

\* C1: whenever this.add(other) returns, the result reads at every position
\* (r, c) of the dimensions the sum of what the two operands read there;
\* a position whose values sum to 0 reads 0.
C1_AddIsElementwiseSum ==
    [][ReturnedStep("add") =>
        \A r \in RowsOf(matrices[call'.this]), c \in ColsOf(matrices[call'.this]) :
            getElement(maps', matrices'["result"], Num(r), Num(c))
            = Plus(getElement(maps, matrices[call'.this], Num(r), Num(c)),
                   getElement(maps, matrices[call'.other], Num(r), Num(c)))]_vars

\* C2: whenever this.multiply(other) returns, the result reads at every
\* (r, c) with r < this.numRows and c < other.numCols the matrix product,
\* the sum over k of this(r, k) * other(k, c).
C2_MultiplyIsMatrixProduct ==
    [][ReturnedStep("multiply") =>
        \A r \in RowsOf(matrices[call'.this]), c \in ColsOf(matrices[call'.other]) :
            getElement(maps', matrices'["result"], Num(r), Num(c))
            = Num(DotProduct(maps, matrices[call'.this], matrices[call'.other],
                             r, c, matrices[call'.this].numCols.n))]_vars

\* C3: whenever this.subtract(other) returns, the result reads at every
\* position the difference of what the two operands read there; a position
\* where both hold the same non-zero value reads 0.
C3_SubtractIsElementwiseDifference ==
    [][ReturnedStep("subtract") =>
        \A r \in RowsOf(matrices[call'.this]), c \in ColsOf(matrices[call'.this]) :
            getElement(maps', matrices'["result"], Num(r), Num(c))
            = Minus(getElement(maps, matrices[call'.this], Num(r), Num(c)),
                    getElement(maps, matrices[call'.other], Num(r), Num(c)))]_vars

\* C4: add and subtract throw their dimension error exactly when the
\* operands differ in numRows or in numCols, multiply exactly when
\* this.numCols differs from other.numRows; a throw returns no matrix (the
\* variables keep what they held), and a returned result has the dimensions
\* (this.numRows, this.numCols), for multiply (this.numRows, other.numCols).
C4_DimensionCheck ==
    [][(nOps' = nOps + 1) =>
        /\ call'.op \in Operations
        /\ call'.op \in {"add", "subtract"} =>
              (call'.threw <=>
                  \/ matrices[call'.this].numRows # matrices[call'.other].numRows
                  \/ matrices[call'.this].numCols # matrices[call'.other].numCols)
        /\ call'.op = "multiply" =>
              (call'.threw <=>
                  matrices[call'.this].numCols # matrices[call'.other].numRows)
        /\ call'.threw =>
              /\ matrices' = matrices
              /\ call'.error =
                    CASE call'.op = "add" ->
                            "Matrix dimensions do not match for addition"
                      [] call'.op = "subtract" ->
                            "Matrix dimensions do not match for subtraction"
                      [] call'.op = "multiply" ->
                            "Matrix dimensions do not match for multiplication"
        /\ ~call'.threw =>
              /\ matrices'["result"].numRows = matrices[call'.this].numRows
              /\ matrices'["result"].numCols =
                    IF call'.op = "multiply"
                    THEN matrices[call'.other].numCols
                    ELSE matrices[call'.this].numCols]_vars

\* A multiplication that threw after an earlier operation returned.
C4_Witness ==
    /\ call.op = "multiply" /\ call.threw
    /\ nOps = 2 /\ matrices["result"] # Null
    /\ matrices["a"].numCols # matrices["b"].numRows

\* C5: after setElement(row, col, 0) on a matrix that holds a non-zero entry
\* at (row, col), no entry remains at that key and getElement reads 0.
C5_SetZeroRemovesEntry ==
    (call.op = "setElement" /\ call.value = 0 /\ call.had) =>
        /\ ~MapHas(maps[matrices[call.this].elements],
                   Key(Num(call.row), Num(call.col)))
        /\ getElement(maps, matrices[call.this], Num(call.row), Num(call.col))
           = Num(0)

\* C6: no Map of any matrix, built by the constructor, setElement, fromFile,
\* add, subtract or multiply, holds an entry whose value is 0.
C6_NoZeroEntry ==
    \A id \in MapIds : \A i \in 1..Len(maps[id]) : maps[id][i].value # Num(0)

\* a.add(b) has returned after an earlier operation, a and b holding a key
\* whose values sum to 0: setElement was given the 0 as the sum.
C6_Witness ==
    /\ nOps = 2 /\ call.op = "add" /\ ~call.threw /\ call.this = "a"
    /\ \E key \in KeysOf(maps[matrices["a"].elements]) :
          /\ MapHas(maps[matrices["b"].elements], key)
          /\ Plus(MapGet(maps[matrices["a"].elements], key),
                  MapGet(maps[matrices["b"].elements], key)) = Num(0)
          /\ MapHas(maps[matrices["result"].elements], key)

\* Two matrices of the same dimensions that hold the same value at every key.
SameMatrix(heap, m1, m2) ==
    /\ m1.numRows = m2.numRows /\ m1.numCols = m2.numCols
    /\ \A key \in KeysOf(EntriesOf(heap, m1)) \cup KeysOf(EntriesOf(heap, m2)) :
          MapGet(EntriesOf(heap, m1), key) = MapGet(EntriesOf(heap, m2), key)

\* C7: a matrix whose entries are non-zero integers, written to the result
\* file and parsed back with fromFile, has the same numRows, the same
\* numCols and the same value at every key.
C7_RoundTrip ==
    pc = "reloaded" =>
        /\ ~call.threw
        /\ SameMatrix(maps, matrices["a"], matrices["b"])

\* C8: add, subtract and multiply leave both operands as they were, whether
\* they return or throw, and the Map of a returned result is a new object,
\* the Map of neither operand.
C8_OperandsUntouched ==
    [][(nOps' = nOps + 1) =>
        /\ maps'[matrices[call'.this].elements] = maps[matrices[call'.this].elements]
        /\ maps'[matrices[call'.other].elements] = maps[matrices[call'.other].elements]
        /\ matrices'["a"] = matrices["a"] /\ matrices'["b"] = matrices["b"]
        /\ call'.threw => (maps' = maps /\ matrices' = matrices)
        /\ ~call'.threw =>
              matrices'["result"].elements
                 \notin {matrices[call'.this].elements,
                         matrices[call'.other].elements}]_vars

\* An operation on an earlier result and b has returned a non-empty result.
C8_Witness ==
    /\ nOps = 2 /\ call.op \in Operations /\ ~call.threw /\ call.this = "result"
    /\ maps[matrices["result"].elements] # <<>>
    /\ maps[matrices["b"].elements] # <<>>

\* The first loop of add (of subtract) stored nothing at a key of other:
\* this lacks the key, or the sum (the difference) there is 0.
FirstPassStoredNothing(op, thisEntries, otherEntries, key) ==
    \/ ~MapHas(thisEntries, key)
    \/ (IF op = "add"
        THEN Plus(MapGet(thisEntries, key), MapGet(otherEntries, key))
        ELSE Minus(MapGet(thisEntries, key), MapGet(otherEntries, key))) = Num(0)

C10_KeysInRange ==
    [][(nOps' = nOps + 1 /\ ~call'.threw
        /\ KeysInRange(maps, matrices[call'.this])
        /\ KeysInRange(maps, matrices[call'.other]))
       => KeysInRange(maps', matrices'["result"])]_vars

\* a.multiply(b) has returned a non-empty result whose dimensions are those
\* of neither operand, all keys of a and b being in range.
C10_Witness ==
    /\ call.op = "multiply" /\ ~call.threw /\ call.this = "a"
    /\ KeysInRange(maps, matrices["a"]) /\ KeysInRange(maps, matrices["b"])
    /\ maps[matrices["result"].elements] # <<>>
    /\ matrices["result"].numCols # matrices["a"].numCols
    /\ matrices["result"].numRows # matrices["b"].numRows

====
